---- MODULE Spec2Model ----
(***************************************************************************)
(* backup_validate.py: create -> verify -> retry -> rotate pipeline.       *)
(*                                                                         *)
(* File names are small integers whose numeric order stands for the        *)
(* lexicographic order of the names; a relative path is the sequence of    *)
(* its components.  A file's byte content is a record: either opaque       *)
(* bytes, or a tar container (optionally gzip-compressed) holding a tree   *)
(* of member files.                                                        *)
(***************************************************************************)
EXTENDS Integers, Sequences, FiniteSets, TLC

VARIABLES
    source,       \* the --source path: a file or a directory tree
    dest,         \* the --dest directory
    tmpdir,       \* the scratch path ./.tmp_restore
    logdir,       \* whether the parent directory of --logfile exists
    logfile,      \* the --logfile csv
    now,          \* the clock, in seconds
    args,         \* parsed command line: compress, retries, keep
    pc,           \* position of main
    attempts,     \* main's local `attempts`
    success,      \* main's local `success`
    backup_path,  \* main's local `backup_path`
    events,       \* history: the calls main has made, in order
    artifact,     \* the file a direct verify_backup call is given
    ret,          \* result of the last direct call of a function
    calls,        \* number of direct calls made
    snap          \* history: the state the first direct call started from

vars == <<source, dest, tmpdir, logdir, logfile, now, args, pc, attempts,
          success, backup_path, events, artifact, ret, calls, snap>>

----------------------------------------------------------------------------
(* Bounds of the model *)

MaxFiles == 2
MaxRetries == 2
MaxKeep == 2
MaxOld == 3
MaxMtime == 3
MaxCalls == 2

(* time.sleep(5) *)
SleepSeconds == 5

FileNames == 1 .. MaxFiles
SubDirName == MaxFiles + 1
Names == 1 .. SubDirName
Contents == {"hello", "world"}

----------------------------------------------------------------------------
(* Byte contents *)

EmptyTree == [p \in {} |-> 0]

Bytes(b) == [k |-> "bytes", b |-> b, gz |-> FALSE, trunc |-> FALSE, m |-> EmptyTree, ds |-> {}]

(* A tar container: member files m (path -> content) and the directory     *)
(* members ds stored explicitly.                                           *)
Tar(gz, m, ds) == [k |-> "tar", b |-> "", gz |-> gz, trunc |-> FALSE, m |-> m, ds |-> ds]

NoData == Bytes("")

(* A tar file cut short after its first header. *)
Truncated(d) == [d EXCEPT !.trunc = TRUE]

IsPrefix(p, q) == Len(p) <= Len(q) /\ SubSeq(q, 1, Len(p)) = p

(* A tree never has a file where another file's path needs a directory. *)
TreeOK(t) == \A p, q \in DOMAIN t : p # q => ~IsPrefix(p, q)

TreesOver(paths, datas) ==
    { t \in UNION { [ps -> datas] : ps \in SUBSET paths } : TreeOK(t) }

(* The directories a tree implies: every proper prefix of a file's path. *)
DirsOf(t) == UNION { { SubSeq(p, 1, i) : i \in 1 .. Len(p) - 1 } : p \in DOMAIN t }

(* The files of tree t beneath directory `root`, by path relative to it. *)
Under(t, root) ==
    LET ps == { p \in DOMAIN t : IsPrefix(root, p) /\ p # root }
    IN [ r \in { SubSeq(p, Len(root) + 1, Len(p)) : p \in ps } |-> t[root \o r] ]

(* The tree t placed beneath directory `root`. *)
Rooted(t, root) == [ p \in { root \o r : r \in DOMAIN t } |-> t[SubSeq(p, Len(root) + 1, Len(p))] ]

(* The tree holding one file. *)
Single(path, data) == [ p \in {path} |-> data ]

(* Tree a overwritten and extended by tree b. *)
Merge(a, b) == [ p \in DOMAIN a \cup DOMAIN b |-> IF p \in DOMAIN b THEN b[p] ELSE a[p] ]

----------------------------------------------------------------------------
(* sha256_of_file: the digest of a file's bytes.  SHA-256 is taken to be   *)
(* collision-free: the digest determines the content.                      *)

sha256_of_file(data) == [alg |-> "sha256", of |-> <<data>>]

(* hashlib.sha256 fed the hex digests in sequence. *)
sha256_of_digests(ds) == [alg |-> "sha256", of |-> ds]

----------------------------------------------------------------------------
(* sorted() of pathlib paths: by components, a prefix before its extensions *)

RECURSIVE PathLess(_, _)
PathLess(p, q) ==
    IF p = <<>> THEN q # <<>>
    ELSE IF q = <<>> THEN FALSE
    ELSE IF Head(p) # Head(q) THEN Head(p) < Head(q)
    ELSE PathLess(Tail(p), Tail(q))

RECURSIVE SortedPaths(_)
SortedPaths(S) ==
    IF S = {} THEN <<>>
    ELSE LET least == CHOOSE p \in S : \A q \in S \ {p} : PathLess(p, q)
         IN <<least>> \o SortedPaths(S \ {least})

(* agg_checksum(root): digests of the files under root, in sorted order. *)
agg_checksum(t) ==
    LET items == SortedPaths(DOMAIN t)
    IN sha256_of_digests([ i \in 1 .. Len(items) |-> sha256_of_file(t[items[i]]) ])

(* The name .tmp_restore, which sorts before the names of the model. *)
TmpName == 0

(* Mutant: the files are hashed in the order rglob yields them. *)
listing_order(s) == s

(* sorted(paths), line 67, of the list s. *)
RECURSIVE sorted_paths(_)
sorted_paths(s) ==
    IF s = <<>> THEN <<>>
    ELSE LET rest == sorted_paths(SubSeq(s, 1, Len(s) - 1))
             x == s[Len(s)]
             n == Cardinality({ i \in 1 .. Len(rest) : ~PathLess(x, rest[i]) })
         IN SubSeq(rest, 1, n) \o <<x>> \o SubSeq(rest, n + 1, Len(rest))

(* agg_checksum(root) with the walk made explicit: root.rglob("*") yields  *)
(* the files of tree t, each as root joined with its relative path, in the *)
(* order `listing` of the relative paths.                                  *)
agg_checksum_listed(root, t, listing) ==
    LET paths == [ i \in 1 .. Len(listing) |-> root \o listing[i] ]
        items == sorted_paths(paths)
        rel(p) == SubSeq(p, Len(root) + 1, Len(p))
    IN sha256_of_digests([ i \in 1 .. Len(items) |-> sha256_of_file(t[rel(items[i])]) ])

----------------------------------------------------------------------------
(* Paths inside --dest, and the directory's entries *)

Name(base, ts, ext) == [base |-> base, ts |-> ts, ext |-> ext]

(* backup_path = "" *)
NoPath == Name(0, 0, "")

(* backup_path or "n/a" *)
or_na(path) == IF path = NoPath THEN Name(0, 0, "n/a") ELSE path

Entry(name, kind, mtime, data) == [name |-> name, kind |-> kind, mtime |-> mtime, data |-> data]

(* Path.is_file() *)
is_file(e) == e.kind = "file"

(* Opening out_path for writing: creates the file or replaces its content. *)
write_file(d, e) == [d EXCEPT !.entries = { x \in @ : x.name # e.name } \cup {e}]

(* The file at a path inside --dest. *)
FileAt(d, path) ==
    IF \E e \in d.entries : e.name = path /\ is_file(e)
    THEN [exists |-> TRUE, data |-> (CHOOSE e \in d.entries : e.name = path /\ is_file(e)).data]
    ELSE [exists |-> FALSE, data |-> NoData]

----------------------------------------------------------------------------
(* The names bound in the module's namespace: the imports of line 10 and   *)
(* the module's own functions.  pathlib is imported; Path is not.          *)

ModuleGlobals ==
    {"argparse", "hashlib", "tarfile", "shutil", "os", "time", "datetime", "pathlib", "csv",
     "sha256_of_file", "make_backup", "verify_backup", "rotate_backups", "log_entry", "main"}

(* make_backup, lines 23-40: what is written once dest_dir exists. *)
write_backup(src, d, compress, ts) ==
    IF src.kind = "dir" THEN
        LET fname == Name(src.name, ts, IF compress THEN "tar.gz" ELSE "tar")
            tar == Tar(compress, Rooted(src.files, <<src.name>>), {<<src.name>>})
        IN [raised |-> FALSE, exc |-> "", path |-> fname,
            dest |-> write_file(d, Entry(fname, "file", ts, tar))]
    ELSE
        LET fname == Name(src.name, ts, IF compress THEN "gz" ELSE "")
        IN IF compress THEN
               IF src.kind = "missing"
               THEN \* tarfile.open has created out_path when tar.add fails
                    [raised |-> TRUE, exc |-> "FileNotFoundError", path |-> NoPath,
                     dest |-> write_file(d, Entry(fname, "file", ts, Tar(TRUE, EmptyTree, {})))]
               ELSE [raised |-> FALSE, exc |-> "", path |-> fname,
                     dest |-> write_file(d, Entry(fname, "file", ts,
                                  Tar(TRUE, Single(<<src.name>>, src.data), {})))]
           ELSE
               IF src.kind = "missing"
               THEN [raised |-> TRUE, exc |-> "FileNotFoundError", path |-> NoPath, dest |-> d]
               ELSE \* shutil.copy2: content and modification time of the source
                    [raised |-> FALSE, exc |-> "", path |-> fname,
                     dest |-> write_file(d, Entry(fname, "file", src.mtime, src.data))]

(* make_backup(source, dest_dir, compress) called when the clock reads ts. *)
make_backup(src, d, compress, ts) ==
    IF "Path" \notin ModuleGlobals
    THEN \* line 22: the name Path is looked up and is not bound
         [raised |-> TRUE, exc |-> "NameError", path |-> NoPath, dest |-> d]
    ELSE write_backup(src, [d EXCEPT !.exists = TRUE], compress, ts)

----------------------------------------------------------------------------
(* The scratch path ./.tmp_restore *)

Absent == [kind |-> "absent", tree |-> EmptyTree, ds |-> {}]

ScratchDir(tree, ds) == [kind |-> "dir", tree |-> tree, ds |-> ds]

(* tar.extractall(path=tmpdir): members are written over what is there. *)
extractall(tmp, data) == ScratchDir(Merge(tmp.tree, data.m), tmp.ds \cup data.ds)

(* Every directory beneath the scratch root. *)
ScratchDirs(tmp) == tmp.ds \cup DirsOf(tmp.tree)

(* next(tmpdir.rglob(name)): the walk tests a directory for an entry called *)
(* name before it descends into the subdirectories, which it takes in the  *)
(* order `order` the filesystem lists them.  <<>> when nothing matches.     *)
RECURSIVE rglob_from(_, _, _, _)
RECURSIVE rglob_children(_, _, _, _, _)
rglob_from(tmp, name, order, dir) ==
    IF (dir \o <<name>>) \in DOMAIN tmp.tree \cup ScratchDirs(tmp)
    THEN dir \o <<name>>
    ELSE rglob_children(tmp, name, order, dir, 1)

rglob_children(tmp, name, order, dir, i) ==
    IF i > Len(order) THEN <<>>
    ELSE LET child == dir \o <<order[i]>>
             found == IF child \in ScratchDirs(tmp)
                      THEN rglob_from(tmp, name, order, child)
                      ELSE <<>>
         IN IF found # <<>> THEN found ELSE rglob_children(tmp, name, order, dir, i + 1)

Returned(b, tmp) == [out |-> IF b THEN "true" ELSE "false", exc |-> "", tmp |-> tmp]

Raised(exc, tmp) == [out |-> "raise", exc |-> exc, tmp |-> tmp]

(* Mutant: a lookup that finds nothing is reported as a mismatch. *)
compare_file_or_false(src, scratch, restored_file) ==
    IF restored_file = <<>> THEN Returned(FALSE, scratch)
    ELSE IF restored_file \notin DOMAIN scratch.tree
    THEN Raised("IsADirectoryError", scratch)
    ELSE Returned(sha256_of_file(src.data) = sha256_of_file(scratch.tree[restored_file]), scratch)

(* Lines 60-63: restored_file is what the walk found first, <<>> when it   *)
(* found nothing and next() raises.                                        *)
compare_file(src, scratch, restored_file) ==
    IF restored_file = <<>> THEN Raised("StopIteration", scratch)
    ELSE IF restored_file \notin DOMAIN scratch.tree
    THEN Raised("IsADirectoryError", scratch)
    ELSE Returned(sha256_of_file(src.data) = sha256_of_file(scratch.tree[restored_file]), scratch)

(* Lines 53-72: the source is compared with what the scratch path holds.   *)
(* Line 54 lists the scratch path and raises when it does not exist.       *)
check_restored(src, scratch, order) ==
    IF scratch.kind = "absent" THEN Raised("FileNotFoundError", scratch)
    ELSE IF src.kind = "file"
    THEN compare_file(src, scratch, rglob_from(scratch, src.name, order, <<>>))
    ELSE \* is_file() is false: the directory branch
         Returned(agg_checksum(src.files) = agg_checksum(Under(scratch.tree, <<src.name>>)),
                  scratch)

(* verify_backup, lines 50-75: the body of the try statement, entered with *)
(* the scratch directory tmp.                                              *)
verify_try(src, file, tmp, order) ==
    IF ~file.exists THEN Raised("FileNotFoundError", tmp)       \* is_tarfile opens it
    ELSE IF file.data.k = "tar" THEN                             \* tarfile.is_tarfile
        IF file.data.trunc THEN Raised("ReadError", tmp)         \* extractall
        ELSE check_restored(src, extractall(tmp, file.data), order)
    ELSE \* plain file copy
        IF src.kind = "dir" THEN Raised("IsADirectoryError", tmp)
        ELSE IF src.kind = "missing" THEN Raised("FileNotFoundError", tmp)
        ELSE Returned(sha256_of_file(src.data) = sha256_of_file(file.data), tmp)

(* Lines 45-48: an existing scratch directory is removed, then mkdir. *)
fresh_scratch(tmp) == ScratchDir(EmptyTree, {})

(* Mutant: the cleanup as the last statement of the try body, not in a     *)
(* finally clause.                                                         *)
rmtree_unless_raised(r) == IF r.out = "raise" THEN r ELSE [r EXCEPT !.tmp = Absent]

(* finally: shutil.rmtree(str(tmpdir)) *)
finally_rmtree(r) == [r EXCEPT !.tmp = Absent]

(* verify_backup(source, backup_path), called with the scratch path in     *)
(* state tmp.  `order` is the order in which the filesystem lists names.   *)
verify_backup(src, file, tmp, order) ==
    IF tmp.kind = "file"
    THEN Raised("NotADirectoryError", tmp)       \* line 47: rmtree of a non-directory
    ELSE finally_rmtree(verify_try(src, file, fresh_scratch(tmp), order))

----------------------------------------------------------------------------
(* rotate_backups *)

(* sorted(..., key=st_mtime, reverse=True): stable, most recent first. *)
RECURSIVE sorted_by_mtime_desc(_)
sorted_by_mtime_desc(s) ==
    IF s = <<>> THEN <<>>
    ELSE LET rest == sorted_by_mtime_desc(SubSeq(s, 1, Len(s) - 1))
             x == s[Len(s)]
             \* x goes after every element at least as recent
             n == Cardinality({ i \in 1 .. Len(rest) : rest[i].mtime >= x.mtime })
         IN SubSeq(rest, 1, n) \o <<x>> \o SubSeq(rest, n + 1, Len(rest))

(* [f for f in ... if f.is_file()] over the listing `listing` of iterdir. *)
RECURSIVE only_files(_)
only_files(listing) ==
    IF listing = <<>> THEN <<>>
    ELSE (IF is_file(Head(listing)) THEN <<Head(listing)>> ELSE <<>>) \o only_files(Tail(listing))

(* Mutant: files[keep + 1:] *)
slice_one_late(files, keep) == SubSeq(files, keep + 2, Len(files))

(* files[keep:] for keep >= 0 *)
slice_from(files, keep) == SubSeq(files, keep + 1, Len(files))

(* rotate_backups(dest_dir, keep), with iterdir listing the entries in the *)
(* order `listing`.                                                        *)
rotate_backups(d, keep, listing) ==
    LET files == sorted_by_mtime_desc(only_files(listing))
        old == slice_from(files, keep)
    IN IF ~d.exists
       THEN [raised |-> TRUE, exc |-> "FileNotFoundError", dest |-> d]
       ELSE [raised |-> FALSE, exc |-> "",
             dest |-> [d EXCEPT !.entries = @ \ { old[i] : i \in 1 .. Len(old) }]]

(* The orders in which a directory's entries, or a set of names, can be listed. *)
RECURSIVE Listings(_)
Listings(S) ==
    IF S = {} THEN {<<>>}
    ELSE UNION { { <<x>> \o l : l \in Listings(S \ {x}) } : x \in S }

----------------------------------------------------------------------------
(* log_entry *)

Row(path, status, n, msg) == [backup_path |-> path, status |-> status, attempts |-> n, message |-> msg]

Header == Row(Name(0, 0, "backup_path"), "status", 0, "message")

(* log_entry(logfile, source, backup_path, status, attempts, msg): open()  *)
(* in append mode fails when the file's directory does not exist.          *)
log_entry(ld, lf, row) ==
    LET first == ~lf.exists
    IN IF ~ld
       THEN [raised |-> TRUE, exc |-> "FileNotFoundError", logfile |-> lf]
       ELSE [raised |-> FALSE, exc |-> "",
             logfile |-> [exists |-> TRUE,
                          rows |-> lf.rows \o (IF first THEN <<Header>> ELSE <<>>) \o <<row>>]]

----------------------------------------------------------------------------
(* main: the retry loop, lines 118-142.  A state w of the run holds the    *)
(* filesystem, the clock, args, main's locals and the exception in flight  *)
(* (exc = "" when there is none).                                          *)

(* A call of attempt n: how it ended and, for make_backup, the path it    *)
(* returned.                                                               *)
Ev(op, n, out) == [op |-> op, attempt |-> n, out |-> out, path |-> NoPath]

(* time.sleep(5) *)
sleep(w) == [w EXCEPT !.now = @ + SleepSeconds]

(* A call log_entry(args.logfile, args.source, path, status, attempts, msg). *)
call_log_entry(w, path, status, msg) ==
    LET r == log_entry(w.logdir, w.logfile, Row(path, status, w.attempts, msg))
    IN [w EXCEPT !.logfile = r.logfile,
                 !.events = Append(@, Ev("log_entry", w.attempts, status)),
                 !.exc = r.exc]

(* Mutant: the handler swallows the exception without a log row. *)
except_handler_silent(w, e) == sleep([w EXCEPT !.exc = ""])

(* Mutant: the handler also prunes --dest. *)
except_handler_rotating(w, e) ==
    LET w1 == call_log_entry([w EXCEPT !.exc = ""], or_na(w.backup_path), "failure", e)
        r == rotate_backups(w1.dest, w1.args.keep, CHOOSE l \in Listings(w1.dest.entries) : TRUE)
    IN IF w1.exc # "" THEN w1 ELSE sleep([w1 EXCEPT !.dest = r.dest])

(* Mutant: the handler logs the archive name of the attempt before. *)
except_handler_stale(w, e) ==
    LET stale == Name(w.source.name, w.now - SleepSeconds, "tar")
        w1 == call_log_entry([w EXCEPT !.exc = ""], stale, "failure", e)
    IN IF w1.exc # "" THEN w1 ELSE sleep(w1)

(* Lines 135-138: except Exception as e.  An exception raised here leaves  *)
(* main.                                                                   *)
except_handler(w, e) ==
    LET w1 == call_log_entry([w EXCEPT !.exc = ""], or_na(w.backup_path), "failure", e)
    IN IF w1.exc # "" THEN w1 ELSE sleep(w1)

(* Lines 127-130: ok is true.  The outcomes, one for each order in which *)
(* iterdir can list --dest.                                                *)
verified_branch(w) ==
    LET w1 == call_log_entry(w, w.backup_path, "success", "")
    IN IF w1.exc # "" THEN {w1}
       ELSE { LET r == rotate_backups(w1.dest, w1.args.keep, listing)
                  w2 == [w1 EXCEPT !.dest = r.dest,
                                   !.events = Append(@, Ev("rotate_backups", w.attempts,
                                                   IF r.raised THEN "raise" ELSE "return")),
                                   !.exc = r.exc]
              IN IF r.raised THEN w2 ELSE [w2 EXCEPT !.success = TRUE]
              : listing \in Listings(w1.dest.entries) }

(* Lines 132-134: ok is false. *)
mismatch_branch(w) ==
    LET w1 == call_log_entry(w, w.backup_path, "failure", "checksum mismatch")
    IN IF w1.exc # "" THEN w1 ELSE sleep(w1)

(* Lines 125-134: make_backup has returned path. *)
after_backup(w, path, order) ==
    LET w2 == [w EXCEPT !.backup_path = path]
        vb == verify_backup(w2.source, FileAt(w2.dest, w2.backup_path), w2.tmpdir, order)
        w3 == [w2 EXCEPT !.tmpdir = vb.tmp,
                         !.events = Append(@, Ev("verify_backup", w.attempts, vb.out)),
                         !.exc = vb.exc]
    IN IF vb.out = "raise" THEN {w3}
       ELSE IF vb.out = "true" THEN verified_branch(w3)
       ELSE {mismatch_branch(w3)}

(* Lines 124-134: the body of the try statement.  The outcomes, one for    *)
(* each order in which the filesystem can list the scratch directory.      *)
try_body(w) ==
    LET mb == make_backup(w.source, w.dest, w.args.compress, w.now)
        w1 == [w EXCEPT !.dest = mb.dest,
                        !.events = Append(@, [Ev("make_backup", w.attempts,
                                                 IF mb.raised THEN "raise" ELSE "return")
                                              EXCEPT !.path = mb.path]),
                        !.exc = mb.exc]
    IN IF mb.raised THEN {w1}
       ELSE UNION { after_backup(w1, mb.path, order) : order \in Listings(Names) }

(* Lines 122-138: one iteration of the while loop. *)
loop_body(w) ==
    { IF w1.exc # "" THEN except_handler(w1, w1.exc) ELSE w1
      : w1 \in try_body([w EXCEPT !.attempts = @ + 1]) }

(* Line 121: while attempts <= args.retries and not success *)
loop_condition(n, retries, ok) == n <= retries /\ ~ok

----------------------------------------------------------------------------
(* The inputs: sources, destination directories, scratch states *)

Datas == { Bytes(c) : c \in Contents }

(* Paths of the members of a source file that is itself a tar archive. *)
MemberPaths == {<<1>>, <<2, 1>>, <<3, 1>>}

FileDatas == Datas \cup { Tar(FALSE, t, {}) : t \in TreesOver(MemberPaths, {Bytes("hello")}) }

(* Paths of the files of a source directory, relative to it. *)
DirPaths == { <<n>> : n \in FileNames } \cup {<<SubDirName, 1>>}

FileSource(name, data) ==
    [kind |-> "file", name |-> name, data |-> data, files |-> EmptyTree, mtime |-> 1]

DirSource(name, files) ==
    [kind |-> "dir", name |-> name, data |-> NoData, files |-> files, mtime |-> 1]

MissingSource(name) ==
    [kind |-> "missing", name |-> name, data |-> NoData, files |-> EmptyTree, mtime |-> 1]

Sources ==
    { FileSource(n, d) : n \in {1, 2}, d \in FileDatas }
    \cup { DirSource(n, t) : n \in {1, 2}, t \in TreesOver(DirPaths, Datas) }

(* The sources of the runs of main. *)
RunSources ==
    { FileSource(1, d) : d \in {Bytes("hello"), Tar(FALSE, Single(<<2, 1>>, Bytes("hello")), {})} }
    \cup { DirSource(1, t) : t \in TreesOver({ <<n>> : n \in FileNames }, {Bytes("hello")}) }
    \cup { MissingSource(1) }

(* An archive left in --dest by an earlier run, written at time i. *)
OldArchive(i) == Entry(Name(1, i, "tar"), "file", i, Tar(FALSE, EmptyTree, {<<1>>}))

(* --dest before a run: absent, or holding the archives of n earlier runs  *)
(* and possibly a subdirectory.                                            *)
RunDests ==
    { [exists |-> FALSE, entries |-> {}] }
    \cup { [exists |-> TRUE, entries |-> { OldArchive(i) : i \in 1 .. n } \cup sub] :
              n \in 0 .. MaxOld, sub \in { {}, {Entry(Name(2, 0, ""), "dir", 1, NoData)} } }

(* ./.tmp_restore before a call: absent, left behind by a killed run, or a *)
(* file of that name.                                                      *)
Scratches ==
    { Absent,
      ScratchDir(Single(<<1>>, Bytes("world")), {}),
      [kind |-> "file", tree |-> EmptyTree, ds |-> {}] }

NoFile == [exists |-> FALSE, data |-> NoData]

NoLog == [exists |-> FALSE, rows |-> <<>>]

(* The log an earlier run left: the header and that run's row. *)
OldLog ==
    [exists |-> TRUE, rows |-> <<Header, Row(Name(1, 1, "tar"), "success", 1, "")>>]

NoRet == [op |-> "", out |-> "", exc |-> "", modified |-> FALSE]

(* What the history variable snap remembers of the initial state. *)
Snapshot(faithful) ==
    [source |-> source, dest |-> dest, tmpdir |-> tmpdir, logrows |-> Len(logfile.rows),
     prev |-> dest, faithful |-> faithful, modified |-> FALSE]

(* The first reading of the clock: later than every earlier modification. *)
Epoch == MaxMtime + 1

----------------------------------------------------------------------------
(* Spec: a run of main (the backup path, args.restore false) *)

Init ==
    /\ source \in RunSources
    /\ dest \in RunDests
    /\ tmpdir \in Scratches
    /\ logdir \in BOOLEAN
    /\ logfile \in {NoLog} \cup (IF logdir THEN {OldLog} ELSE {})
    /\ now = Epoch
    /\ args \in [compress : BOOLEAN, retries : 0 .. MaxRetries, keep : 0 .. MaxKeep]
    /\ pc = "loop"
    /\ attempts = 0
    /\ success = FALSE
    /\ backup_path = NoPath
    /\ events = <<>>
    /\ artifact = NoFile
    /\ ret = NoRet
    /\ calls = 0
    /\ snap = Snapshot(FALSE)

World ==
    [source |-> source, dest |-> dest, tmpdir |-> tmpdir, logdir |-> logdir,
     logfile |-> logfile, now |-> now, attempts |-> attempts, success |-> success,
     backup_path |-> backup_path, events |-> events, args |-> args, exc |-> ""]

(* One iteration of the loop.  An exception that leaves the handler ends   *)
(* main with a traceback.                                                  *)
Attempt ==
    /\ pc = "loop"
    /\ loop_condition(attempts, args.retries, success)
    /\ \E w \in loop_body(World) :
             /\ dest' = w.dest
             /\ tmpdir' = w.tmpdir
             /\ logfile' = w.logfile
             /\ now' = w.now
             /\ attempts' = w.attempts
             /\ success' = w.success
             /\ backup_path' = w.backup_path
             /\ events' = w.events
             /\ pc' = IF w.exc # "" THEN "crashed" ELSE "loop"
    /\ UNCHANGED <<source, logdir, args, artifact, ret, calls, snap>>

(* Lines 140-142: the loop has ended. *)
Finish ==
    /\ pc = "loop"
    /\ ~loop_condition(attempts, args.retries, success)
    /\ pc' = IF ~success THEN "exit1" ELSE "return"
    /\ UNCHANGED <<source, dest, tmpdir, logdir, logfile, now, args, attempts, success,
                   backup_path, events, artifact, ret, calls, snap>>

Next == Attempt \/ Finish

Spec == Init /\ [][Next]_vars

----------------------------------------------------------------------------
(* SpecRoundTrip: verify_backup(f, make_backup(f, dest, compress)) with f  *)
(* left alone between the two calls.                                       *)

Result(op, out, exc) == [op |-> op, out |-> out, exc |-> exc, modified |-> snap.modified]

IdleMain ==
    /\ logdir = FALSE
    /\ logfile = NoLog
    /\ pc = "idle"
    /\ attempts = 0
    /\ success = FALSE
    /\ backup_path = NoPath
    /\ events = <<>>

InitRoundTrip ==
    /\ source \in Sources
    /\ dest \in RunDests
    /\ tmpdir \in Scratches
    /\ now = Epoch
    /\ args \in [compress : BOOLEAN, retries : {0}, keep : {0}]
    /\ IdleMain
    /\ artifact = NoFile
    /\ ret = NoRet
    /\ calls = 0
    /\ snap = Snapshot(FALSE)

RoundTrip ==
    /\ calls < MaxCalls
    /\ LET mb == make_backup(source, dest, args.compress, now)
       IN /\ dest' = mb.dest
          /\ artifact' = FileAt(mb.dest, mb.path)
          /\ IF mb.raised
             THEN /\ ret' = Result("make_backup", "raise", mb.exc)
                  /\ tmpdir' = tmpdir
             ELSE \E order \in Listings(Names) :
                     LET vb == verify_backup(source, FileAt(mb.dest, mb.path), tmpdir, order)
                     IN /\ ret' = Result("verify_backup", vb.out, vb.exc)
                        /\ tmpdir' = vb.tmp
    /\ calls' = calls + 1
    /\ now' = now + 1
    /\ UNCHANGED <<source, logdir, logfile, args, pc, attempts, success, backup_path,
                   events, snap>>

SpecRoundTrip == InitRoundTrip /\ [][RoundTrip]_vars

----------------------------------------------------------------------------
(* SpecVerify: verify_backup called on a source and a file at backup_path; *)
(* the source may be edited between its archiving and the call.            *)

(* The artifact lines 23-40 write for src. *)
ArchiveOf(src, compress) ==
    LET w == write_backup(src, [exists |-> TRUE, entries |-> {}], compress, Epoch)
    IN FileAt(w.dest, w.path)

(* Files that are no archive of src: a damaged archive, the archive of an  *)
(* emptied source, a stray file, no file at all.                           *)
OtherArtifacts(src) ==
    { [exists |-> TRUE, data |-> Truncated(ArchiveOf(src, TRUE).data)],
      ArchiveOf([src EXCEPT !.files = EmptyTree, !.data = Bytes("")], TRUE),
      [exists |-> TRUE, data |-> Bytes("stray")],
      NoFile }

InitVerify ==
    /\ source \in Sources
    /\ \E faithful \in BOOLEAN :
          /\ artifact \in IF faithful
                          THEN { ArchiveOf(source, c) : c \in BOOLEAN }
                          ELSE OtherArtifacts(source)
          /\ dest = [exists |-> TRUE, entries |-> {}]
          /\ tmpdir \in Scratches
          /\ now = Epoch
          /\ args = [compress |-> FALSE, retries |-> 0, keep |-> 0]
          /\ IdleMain
          /\ ret = NoRet
          /\ calls = 0
          /\ snap = Snapshot(faithful)

Verify ==
    /\ calls < MaxCalls
    /\ \E order \in Listings(Names) :
          LET vb == verify_backup(source, artifact, tmpdir, order)
          IN /\ ret' = Result("verify_backup", vb.out, vb.exc)
             /\ tmpdir' = vb.tmp
    /\ calls' = calls + 1
    /\ UNCHANGED <<source, dest, logdir, logfile, now, args, pc, attempts, success,
                   backup_path, events, artifact, snap>>

(* The content of files of the source changes; the set of names does not. *)
Modify ==
    /\ ~snap.modified
    /\ \/ /\ source.kind = "file"
          /\ \E d \in FileDatas \ {source.data} : source' = [source EXCEPT !.data = d]
       \/ /\ source.kind = "dir"
          /\ \E t \in [DOMAIN source.files -> Datas] \ {source.files} :
                source' = [source EXCEPT !.files = t]
    /\ snap' = [snap EXCEPT !.modified = TRUE]
    /\ UNCHANGED <<dest, tmpdir, logdir, logfile, now, args, pc, attempts, success,
                   backup_path, events, artifact, ret, calls>>

NextVerify == Verify \/ Modify

SpecVerify == InitVerify /\ [][NextVerify]_vars

----------------------------------------------------------------------------
(* SpecRotate: rotate_backups called on a directory *)

(* What a directory can hold under the name i: nothing, a regular file, a  *)
(* subdirectory, or an entry that is neither (a FIFO, a dangling symlink). *)
EntriesNamed(i) ==
    { {} }
    \cup { {Entry(Name(i, 0, "tar"), k, t, NoData)} : k \in {"file", "other"}, t \in 1 .. MaxMtime }
    \cup { {Entry(Name(i, 0, ""), "dir", 1, NoData)} }

RECURSIVE DirsUpTo(_)
DirsUpTo(n) ==
    IF n = 0 THEN { {} }
    ELSE { d \cup e : d \in DirsUpTo(n - 1), e \in EntriesNamed(n) }

InitRotate ==
    /\ source = MissingSource(1)
    /\ \E es \in DirsUpTo(MaxOld) : dest = [exists |-> TRUE, entries |-> es]
    /\ tmpdir = Absent
    /\ now = Epoch
    /\ args \in [compress : {FALSE}, retries : {0}, keep : 0 .. MaxKeep]
    /\ IdleMain
    /\ artifact = NoFile
    /\ ret = NoRet
    /\ calls = 0
    /\ snap = Snapshot(FALSE)

Rotate ==
    /\ calls < MaxCalls
    /\ \E listing \in Listings(dest.entries) :
          LET r == rotate_backups(dest, args.keep, listing)
          IN /\ dest' = r.dest
             /\ ret' = Result("rotate_backups", IF r.raised THEN "raise" ELSE "return", r.exc)
    /\ calls' = calls + 1
    /\ snap' = [snap EXCEPT !.prev = dest]
    /\ UNCHANGED <<source, tmpdir, logdir, logfile, now, args, pc, attempts, success,
                   backup_path, events, artifact>>

SpecRotate == InitRotate /\ [][Rotate]_vars

----------------------------------------------------------------------------
(* SpecAgg: agg_checksum applied to a directory, and to the directory      *)
(* after one edit of it.                                                   *)

AggResult(op, root, listing, before, after) ==
    [op |-> op, root |-> root, listing |-> listing, before |-> before, after |-> after]

(* srcpath, and tmpdir / srcpath.name *)
AggRoots(src) == { <<src.name>>, <<TmpName, src.name>> }

InitAgg ==
    /\ source \in { DirSource(n, t) : n \in {1, 2}, t \in TreesOver(DirPaths, Datas) }
    /\ dest = [exists |-> TRUE, entries |-> {}]
    /\ tmpdir = Absent
    /\ now = Epoch
    /\ args = [compress |-> FALSE, retries |-> 0, keep |-> 0]
    /\ IdleMain
    /\ artifact = NoFile
    /\ ret = NoRet
    /\ calls = 0
    /\ snap = Snapshot(FALSE)

AggFrame ==
    UNCHANGED <<dest, tmpdir, logdir, logfile, now, args, pc, attempts, success,
                backup_path, events, artifact>>

(* agg_checksum of the directory as it is, from one of its two roots, the  *)
(* walk yielding the files in some order.                                  *)
Checksum ==
    /\ calls < MaxCalls
    /\ \E root \in AggRoots(source), listing \in Listings(DOMAIN source.files) :
          LET d == agg_checksum_listed(root, source.files, listing)
          IN ret' = AggResult("agg_checksum", root, listing, d, d)
    /\ calls' = calls + 1
    /\ UNCHANGED <<source, snap>>
    /\ AggFrame

(* The directory is edited to `files`, once, and hashed before and after. *)
Edited(kind, files) ==
    /\ ~snap.modified
    /\ source' = [source EXCEPT !.files = files]
    /\ ret' = AggResult(kind, <<source.name>>, <<>>, agg_checksum(source.files), agg_checksum(files))
    /\ snap' = [snap EXCEPT !.modified = TRUE]
    /\ UNCHANGED calls
    /\ AggFrame

ChangeContent ==
    \E p \in DOMAIN source.files :
       \E d \in Datas \ {source.files[p]} :
          Edited("content", [source.files EXCEPT ![p] = d])

AddFile ==
    \E p \in DirPaths \ DOMAIN source.files, d \in Datas :
       Edited("add", Merge(source.files, Single(p, d)))

RemoveFile ==
    \E p \in DOMAIN source.files :
       Edited("remove", [ q \in DOMAIN source.files \ {p} |-> source.files[q] ])

(* os.rename of one file: same content, another relative path. *)
RenameFile ==
    \E p \in DOMAIN source.files, n \in DirPaths \ DOMAIN source.files :
       Edited("rename", [ q \in (DOMAIN source.files \ {p}) \cup {n} |->
                             IF q = n THEN source.files[p] ELSE source.files[q] ])

NextAgg == Checksum \/ ChangeContent \/ AddFile \/ RemoveFile \/ RenameFile

SpecAgg == InitAgg /\ [][NextAgg]_vars

----------------------------------------------------------------------------
(* SpecOverlap: two calls of verify_backup from one working directory,     *)
(* overlapping in time.  Both resolve ./.tmp_restore to the same path, so  *)
(* tmpdir is shared; source, artifact, pc and ret are per caller.  A call  *)
(* advances by the statements that touch the scratch path.                 *)

Callers == {1, 2}

OverlapSources ==
    { FileSource(1, Bytes("hello")), FileSource(2, Bytes("world")),
      DirSource(1, Single(<<1>>, Bytes("hello"))) }

InitOverlap ==
    /\ source \in [Callers -> OverlapSources]
    /\ artifact \in [Callers -> UNION { { ArchiveOf(src, c) : c \in BOOLEAN } \cup OtherArtifacts(src)
                                        : src \in OverlapSources }]
    /\ \A p \in Callers :
          artifact[p] \in { ArchiveOf(source[p], c) : c \in BOOLEAN } \cup OtherArtifacts(source[p])
    /\ dest = [exists |-> TRUE, entries |-> {}]
    /\ tmpdir \in { t \in Scratches : t.kind # "file" }
    /\ now = Epoch
    /\ args = [compress |-> FALSE, retries |-> 0, keep |-> 0]
    /\ logdir = FALSE
    /\ logfile = NoLog
    /\ pc = [p \in Callers |-> "setup"]
    /\ attempts = 0
    /\ success = FALSE
    /\ backup_path = NoPath
    /\ events = <<>>
    /\ ret = [p \in Callers |-> NoRet]
    /\ calls = 0
    /\ snap = Snapshot(FALSE)

OverlapFrame ==
    UNCHANGED <<source, dest, logdir, logfile, now, args, attempts, success, backup_path,
                events, artifact, snap>>

(* Lines 46-48. *)
Setup(p) ==
    /\ pc[p] = "setup"
    /\ tmpdir' = fresh_scratch(tmpdir)
    /\ pc' = [pc EXCEPT ![p] = "extract"]
    /\ UNCHANGED <<ret, calls>>
    /\ OverlapFrame

(* Lines 50-52 and 75: an archive is extracted into the scratch path, which *)
(* extractall creates when it is gone; any other file ends the try body.   *)
Extract(p) ==
    /\ pc[p] = "extract"
    /\ LET file == artifact[p]
       IN IF file.exists /\ file.data.k = "tar" /\ ~file.data.trunc
          THEN /\ tmpdir' = extractall(tmpdir, file.data)
               /\ pc' = [pc EXCEPT ![p] = "check"]
               /\ UNCHANGED ret
          ELSE LET r == verify_try(source[p], file, tmpdir, <<>>)
               IN /\ ret' = [ret EXCEPT ![p] = Result("verify_backup", r.out, r.exc)]
                  /\ pc' = [pc EXCEPT ![p] = "cleanup"]
                  /\ UNCHANGED tmpdir
    /\ UNCHANGED calls
    /\ OverlapFrame

(* Lines 53-72: the scratch path is read as it is now. *)
Check(p) ==
    /\ pc[p] = "check"
    /\ \E order \in Listings(Names) :
          LET r == check_restored(source[p], tmpdir, order)
          IN ret' = [ret EXCEPT ![p] = Result("verify_backup", r.out, r.exc)]
    /\ pc' = [pc EXCEPT ![p] = "cleanup"]
    /\ UNCHANGED <<tmpdir, calls>>
    /\ OverlapFrame

(* Line 77: rmtree in the finally clause; when the path is gone it raises  *)
(* and the exception replaces the result of the try body.                  *)
Cleanup(p) ==
    /\ pc[p] = "cleanup"
    /\ IF tmpdir.kind = "absent"
       THEN /\ ret' = [ret EXCEPT ![p] = Result("verify_backup", "raise", "FileNotFoundError")]
            /\ UNCHANGED tmpdir
       ELSE /\ tmpdir' = Absent
            /\ UNCHANGED ret
    /\ pc' = [pc EXCEPT ![p] = "done"]
    /\ calls' = calls + 1
    /\ OverlapFrame

NextOverlap == \E p \in Callers : Setup(p) \/ Extract(p) \/ Check(p) \/ Cleanup(p)

SpecOverlap == InitOverlap /\ [][NextOverlap]_vars

----------------------------------------------------------------------------
(* Properties *)

Files(d) == { e \in d.entries : is_file(e) }

NonDirs(d) == { e \in d.entries : e.kind # "dir" }

DistinctMtimes(S) == \A e, f \in S : e # f => e.mtime # f.mtime

(* The k most recently modified entries of S. *)
MostRecent(S, k) == { e \in S : Cardinality({ f \in S : f.mtime > e.mtime }) < k }

Min(a, b) == IF a < b THEN a ELSE b

(* The rows this run appended to the log. *)
RunRows ==
    SelectSeq(SubSeq(logfile.rows, snap.logrows + 1, Len(logfile.rows)), LAMBDA r : r # Header)

LogCalls(n) == { i \in DOMAIN events : events[i].op = "log_entry" /\ events[i].attempt = n }

(* C1: for a single-file source left unmodified, verify_backup of the      *)
(* archive make_backup has just made of it returns true, whether or not    *)
(* compress is set.                                                        *)
C1_FileRoundTrip ==
    (calls > 0 /\ source.kind = "file") => (ret.op = "verify_backup" /\ ret.out = "true")

(* C2: for a directory source left unmodified, verify_backup of the        *)
(* archive make_backup has just made of it returns true, whether or not    *)
(* compress is set.                                                        *)
C2_DirectoryRoundTrip ==
    (calls > 0 /\ source.kind = "dir") => (ret.op = "verify_backup" /\ ret.out = "true")

(* C3: no run makes more than retries + 1 attempts, and a run that ends    *)
(* without a success has made exactly retries + 1 attempts, logged with    *)
(* the numbers 1 .. retries + 1, and ends through SystemExit(1).           *)
C3_RetryBudget ==
    /\ attempts <= args.retries + 1
    /\ (pc \notin {"loop", "return"}) =>
          /\ pc = "exit1"
          /\ attempts = args.retries + 1
          /\ Len(RunRows) = args.retries + 1
          /\ \A i \in DOMAIN RunRows : RunRows[i].attempts = i

(* C4 as claimed: after rotate_backups on a directory whose non-directory  *)
(* entries have distinct modification times, the non-directory entries     *)
(* left are exactly the min(n, keep) most recent, subdirectories are       *)
(* untouched, and a second call deletes nothing.                           *)
C4_RetentionOfNonDirectories ==
    (calls > 0 /\ DistinctMtimes(NonDirs(snap.dest))) =>
        /\ NonDirs(dest) = MostRecent(NonDirs(snap.dest), args.keep)
        /\ Cardinality(NonDirs(dest)) = Min(Cardinality(NonDirs(snap.dest)), args.keep)
        /\ dest.entries \ NonDirs(dest) = snap.dest.entries \ NonDirs(snap.dest)
        /\ (calls > 1 => dest = snap.prev)

(* C4 amended: after rotate_backups on a directory whose regular files     *)
(* have distinct modification times, the regular files left are exactly    *)
(* the min(n, keep) most recent, every entry that is not a regular file    *)
(* is untouched, and a second call deletes nothing.                        *)
C4_RetentionOfRegularFiles ==
    (calls > 0 /\ DistinctMtimes(Files(snap.dest))) =>
        /\ Files(dest) = MostRecent(Files(snap.dest), args.keep)
        /\ Cardinality(Files(dest)) = Min(Cardinality(Files(snap.dest)), args.keep)
        /\ dest.entries \ Files(dest) = snap.dest.entries \ Files(snap.dest)
        /\ (calls > 1 => dest = snap.prev)

(* C4 witness: two calls on a directory with more regular files than keep, *)
(* all of distinct age, beside an entry that is neither file nor directory. *)
C4_Witness ==
    /\ calls = 2
    /\ args.keep > 0
    /\ DistinctMtimes(Files(snap.dest))
    /\ Cardinality(Files(snap.dest)) > args.keep
    /\ \E e \in snap.dest.entries : e.kind = "other"
    /\ Cardinality(Files(dest)) = args.keep

(* C5: rotate_backups is called only in an attempt in which make_backup    *)
(* returned and verify_backup then returned true, and a run without a      *)
(* success deletes no file of --dest.                                      *)
C5_RetentionOnlyAfterVerifiedSuccess ==
    /\ \A i \in DOMAIN events :
          events[i].op = "rotate_backups" =>
             \E j, k \in 1 .. i - 1 :
                /\ j < k
                /\ events[j].op = "make_backup" /\ events[j].out = "return"
                /\ events[j].attempt = events[i].attempt
                /\ events[k] = Ev("verify_backup", events[i].attempt, "true")
    /\ ~success => Files(snap.dest) \subseteq dest.entries

(* C5 witness: a run that ended through SystemExit(1) after several failed *)
(* attempts, with more files in --dest than keep allows.                   *)
C5_Witness ==
    /\ pc = "exit1"
    /\ attempts > 1
    /\ Cardinality(Files(snap.dest)) > args.keep
    /\ Files(dest) = Files(snap.dest)

(* C7: no exception leaves main: a run ends only by returning after a      *)
(* success or, after retries + 1 attempts, through SystemExit(1).          *)
C7_NoEarlyAbort ==
    /\ pc \in {"loop", "return", "exit1"}
    /\ pc = "return" => success
    /\ pc = "exit1" => attempts = args.retries + 1

C9_ScratchCleanup ==
    calls > 0 =>
        /\ tmpdir.kind # "dir"
        /\ ret.exc # "NotADirectoryError" => tmpdir = Absent

(* C9 witness: a call that found a scratch directory left behind and       *)
(* raised during the lookup of the restored file.                          *)
C9_Witness ==
    /\ calls > 0
    /\ snap.tmpdir.kind = "dir"
    /\ ret.exc = "StopIteration"
    /\ tmpdir = Absent

(* C10: verify_backup of the archive made from a source (a file or a       *)
(* directory, compressed or not) returns false, and does not raise, once   *)
(* the content of a file of that source has changed under the same names;  *)
(* the scratch path is not taken by a file.                                *)
C10_DivergenceDetected ==
    (ret.op = "verify_backup" /\ snap.faithful /\ ret.modified /\ snap.tmpdir.kind # "file")
        => ret.out = "false"

(* C11: make_backup on a source that exists returns without raising,       *)
(* whether or not --dest existed before; after it --dest exists, holds     *)
(* exactly one entry it did not hold before, and that entry is the file at *)
(* the returned path.                                                      *)
C11_CreateWritesOneArtifact ==
    (calls > 0 /\ source.kind # "missing") =>
        /\ ret.op # "make_backup"
        /\ dest.exists
        /\ artifact.exists
        /\ calls = 1 => Cardinality(dest.entries \ snap.dest.entries) = 1

(* C12: with a collision-free file digest, agg_checksum of a directory     *)
(* differs from agg_checksum of the directory after one file's content is  *)
(* changed, a file is added, a file is removed, or a file is renamed.      *)
C12_DigestSensitive ==
    ret.op \in {"content", "add", "remove", "rename"} => ret.before # ret.after

(* C13: agg_checksum of a directory is the same for every order in which   *)
(* the walk yields its files, and the same from the source's root as from  *)
(* the root of the extracted copy.                                         *)
C13_OrderIndependent ==
    ret.op = "agg_checksum" =>
        /\ \A root \in AggRoots(source), listing \in Listings(DOMAIN source.files) :
              agg_checksum_listed(root, source.files, listing) = ret.after
        /\ agg_checksum(source.files) = ret.after

(* C13 witness: a directory with a file in a subdirectory and files of     *)
(* different content, walked from the scratch root in an order that is not *)
(* the sorted one.                                                         *)
C13_Witness ==
    /\ ret.op = "agg_checksum"
    /\ ret.root = <<TmpName, source.name>>
    /\ Len(ret.listing) = Cardinality(DirPaths)
    /\ \E i \in 1 .. Len(ret.listing) - 1 : PathLess(ret.listing[i + 1], ret.listing[i])
    /\ \E p, q \in DOMAIN source.files : source.files[p] # source.files[q]

(* The paths make_backup returned in attempt n. *)
Created(n) ==
    { events[j].path : j \in { k \in DOMAIN events : /\ events[k].op = "make_backup"
                                                      /\ events[k].attempt = n
                                                      /\ events[k].out = "return" } }

(* C15: every row a run appends carries the path make_backup returned in   *)
(* the attempt the row is numbered with, or n/a when make_backup returned  *)
(* none in that attempt; never the path of another attempt.                *)
C15_PathOfOwnAttempt ==
    \A i \in DOMAIN RunRows :
       LET n == RunRows[i].attempts
       IN IF Created(n) = {}
          THEN RunRows[i].backup_path = Name(0, 0, "n/a")
          ELSE RunRows[i].backup_path \in Created(n)

(* C15 witness: a run of three attempts into a directory that holds the    *)
(* archives of earlier runs; each attempt's make_backup raised and each    *)
(* row carries n/a.                                                        *)
C15_Witness ==
    /\ pc = "exit1"
    /\ Len(RunRows) = 3
    /\ Files(snap.dest) # {}
    /\ \A i \in DOMAIN RunRows : RunRows[i].attempts = i /\ RunRows[i].backup_path = Name(0, 0, "n/a")
    /\ \A n \in 1 .. 3 : Ev("make_backup", n, "raise") \in { events[j] : j \in DOMAIN events }

(* C16: for given entries of --dest (equal modification times allowed) and *)
(* a given keep, rotate_backups deletes the same entries whatever the      *)
(* order in which iterdir lists the directory.                             *)
C16_DeterministicUnderTies ==
    calls = 1 =>
        \A listing \in Listings(snap.dest.entries) :
           rotate_backups(snap.dest, args.keep, listing).dest = dest

(* The files and directories an archive's extraction puts under the        *)
(* scratch root.                                                           *)
Extracted(data) == DOMAIN data.m \cup data.ds \cup DirsOf(data.m)

AloneResults(p) ==
    { [out |-> r.out, exc |-> r.exc] :
         r \in { verify_backup(source[p], artifact[p], Absent, order) : order \in Listings(Names) } }

(* C18: of two overlapping calls of verify_backup, each reads a scratch    *)
(* directory that holds what it extracted itself and nothing else, and     *)
(* each ends as it would have ended alone.                                 *)
C18_ScratchExclusive ==
    \A p \in Callers :
       /\ pc[p] = "check" => tmpdir = extractall(fresh_scratch(Absent), artifact[p].data)
       /\ pc[p] = "done" => [out |-> ret[p].out, exc |-> ret[p].exc] \in AloneResults(p)

====
